---- MODULE Spec2Model ----
(***************************************************************************)
(* Model of src/subtitle.py: the batch subtitle pipeline                   *)
(*   main -> check_dependencies -> collect_video_files ->                  *)
(*   process_video (extract_audio_with_filters, generate_subtitle).        *)
(* The filesystem is a set of paths; a path is [root, dir, name] and a     *)
(* name is a sequence of tokens ("a", ".", "mp4"), so that Path.stem,      *)
(* Path.suffix, str.lower and the f-strings are computed, not assumed.     *)
(* ffmpeg, whisper.cpp's main, shutil.move, mkdir and unlink are external: *)
(* each outcome they can have is a nondeterministic choice.                *)
(***************************************************************************)
EXTENDS Integers, Sequences, FiniteSets, TLC

VARIABLES
    deps,           \* what check_dependencies can find: [ffmpeg, main, model, videoDir]
    files,          \* regular files on disk (input and output tree)
    made,           \* files on disk whose content was written by the pipeline
    outDirs,        \* directories that exist under/at SUBTITLE_DIR
    pc,             \* position of the program
    run,            \* number of the current run of main()
    video_files,    \* main: list returned by collect_video_files
    i,              \* main: 1-based index of the loop over video_files
    success_count,  \* main
    failed_count,   \* main
    exitStatus,     \* process exit status (-1 while running)
    printed,        \* messages printed by main / check_dependencies
    video_path,     \* process_video: argument
    temp_wav,       \* process_video: local
    keep_wav,       \* process_video: local
    success,        \* process_video: local, result of generate_subtitle
    ffmpeg_rc,      \* extract_audio_with_filters: exit status of ffmpeg (-1: not run)
    engine_rc,      \* generate_subtitle: exit status of the engine (-1: not run)
    engine_wrote,   \* whether the engine wrote its artifact in this invocation
    outcomes,       \* history: return values of process_video in this run
    fault,          \* history: per-file failure met by the current task
    crashAt,        \* history: call whose exception left main uncaught
    startFiles,     \* history: files on disk when the run started
    startDirs,      \* history: outDirs when the run started
    scanned,        \* history: collect_video_files was called in this run
    invoked,        \* history: <<tool, input path, destination existed>> of this run
    placed,         \* history: destinations populated by shutil.move in this run
    prevClean,      \* history: the previous run had tasks and each was a success
    crashedBefore   \* history: an earlier run ended by an uncaught exception

vars == <<deps, files, made, outDirs, pc, run, video_files, i, success_count,
          failed_count, exitStatus, printed, video_path, temp_wav, keep_wav,
          success, ffmpeg_rc, engine_rc, engine_wrote, outcomes, fault, crashAt,
          startFiles, startDirs, scanned, invoked, placed, prevClean,
          crashedBefore>>

----------------------------------------------------------------------------
(* Bounds *)
MaxFiles == 2       \* files in the input tree before the first run
MaxRuns == 2        \* consecutive runs of main()

----------------------------------------------------------------------------
(* Configuration, lines 26-29 *)
VIDEO_DIR == "video"
SUBTITLE_DIR == "subtitle"
SUPPORTED_EXTENSIONS ==
    { <<".", "mp4">>, <<".", "mov">>, <<".", "m4a">>,
      <<".", "mp3">>, <<".", "mkv">>, <<".", "wav">> }

DepNames == {"ffmpeg", "main", "model", "videoDir"}

----------------------------------------------------------------------------
(* Path arithmetic *)

\* str.lower on one token
LowerTok(t) ==
    CASE t = "MP4" -> "mp4"
      [] t = "MOV" -> "mov"
      [] t = "WAV" -> "wav"
      [] t = "SRT" -> "srt"
      [] OTHER -> t

Lower(s) == [k \in 1..Len(s) |-> LowerTok(s[k])]

\* str.rfind('.'): the last index holding ".", 0 when there is none
RFindDot(name) ==
    LET ds == {k \in 1..Len(name) : name[k] = "."}
    IN  IF ds = {} THEN 0 ELSE CHOOSE k \in ds : \A m \in ds : m <= k

\* pathlib's PurePath.suffix: from the last dot on, unless the dot is the
\* first or the last character of the name
Suffix(name) ==
    LET d == RFindDot(name)
    IN  IF 1 < d /\ d < Len(name) THEN SubSeq(name, d, Len(name)) ELSE <<>>

\* pathlib's PurePath.stem
Stem(name) ==
    LET d == RFindDot(name)
    IN  IF 1 < d /\ d < Len(name) THEN SubSeq(name, 1, d - 1) ELSE name

P(root, dir, name) == [root |-> root, dir |-> dir, name |-> name]

NoPath == P("none", ".", <<>>)

\* Path(subtitle_dir) / rel_path.parent / f"{file_stem}.srt", lines 159-160, 217-218
OutputSrtPath(subtitle_dir, p) == P(subtitle_dir, p.dir, Stem(p.name) \o <<".", "srt">>)

\* video_path_obj.parent / f"{file_stem}_temp.wav", line 170
TempWavPath(p) == P(p.root, p.dir, Stem(p.name) \o <<"_temp", ".", "wav">>)

\* f"{wav_file}.srt", line 108
TempSrtPath(w) == P(w.root, w.dir, w.name \o <<".", "srt">>)

----------------------------------------------------------------------------
(* The input trees and the initial state *)

InputUniverse ==
    { P(VIDEO_DIR, ".",   <<"a", ".", "mp4">>),
      P(VIDEO_DIR, ".",   <<"a", ".", "MOV">>),
      P(VIDEO_DIR, ".",   <<"a", "_temp", ".", "wav">>),
      P(VIDEO_DIR, ".",   <<"a", ".", "txt">>),
      P(VIDEO_DIR, "sub", <<"b", ".", "WAV">>) }

\* subtitles that may be there before the first run
OutputUniverse == { P(SUBTITLE_DIR, ".", <<"a", ".", "srt">>) }

Init ==
    /\ deps \in [DepNames -> BOOLEAN]
    /\ \E ins \in SUBSET InputUniverse, outs \in SUBSET OutputUniverse :
          /\ Cardinality(ins) <= MaxFiles
          /\ ~deps["videoDir"] => ins = {}
          /\ files = ins \cup outs
          /\ outDirs \in (IF outs = {} THEN {{}, {"."}} ELSE {{"."}})
    /\ made = {}
    /\ pc = "main"
    /\ run = 1
    /\ video_files = <<>>
    /\ i = 1
    /\ success_count = 0
    /\ failed_count = 0
    /\ exitStatus = -1
    /\ printed = {}
    /\ video_path = NoPath
    /\ temp_wav = NoPath
    /\ keep_wav = FALSE
    /\ success = FALSE
    /\ ffmpeg_rc = -1
    /\ engine_rc = -1
    /\ engine_wrote = FALSE
    /\ outcomes = <<>>
    /\ fault = "none"
    /\ crashAt = "none"
    /\ startFiles = files
    /\ startDirs = outDirs
    /\ scanned = FALSE
    /\ invoked = {}
    /\ placed = {}
    /\ prevClean = FALSE
    /\ crashedBefore = FALSE

mainVars == <<video_files, i, success_count, failed_count, outcomes>>
taskVars == <<video_path, temp_wav, keep_wav, success, ffmpeg_rc, engine_rc, engine_wrote>>
runHist  == <<startFiles, startDirs, prevClean, crashedBefore>>

----------------------------------------------------------------------------
(* check_dependencies, lines 32-56, and main, lines 231-233 *)

\* the errors list: one entry per missing dependency (all four are checked)
Errors == {d \in DepNames : ~deps[d]}

check_dependencies_noModel == (Errors \ {"model"}) = {}

check_dependencies == Errors = {}

\* an exception nobody catches: traceback, exit status 1
Crash(at) ==
    /\ pc' = "crashed"
    /\ exitStatus' = 1
    /\ crashAt' = at

CheckDependencies ==
    /\ pc = "main"
    /\ IF check_dependencies
          THEN /\ pc' = "makedirs"
               /\ UNCHANGED <<exitStatus, printed>>
          ELSE /\ pc' = "exited"
               /\ exitStatus' = 1
               /\ printed' = printed \cup {"errors"}
    /\ UNCHANGED <<deps, files, made, outDirs, run, mainVars, taskVars, fault,
                   crashAt, runHist, scanned, invoked, placed>>

\* os.makedirs(SUBTITLE_DIR, exist_ok=True), line 236
MakeDirs ==
    /\ pc = "makedirs"
    /\ \/ /\ outDirs' = outDirs \cup {"."}
          /\ pc' = "scan"
          /\ UNCHANGED <<exitStatus, crashAt>>
       \/ /\ "." \notin outDirs
          /\ Crash("makedirs")
          /\ UNCHANGED outDirs
    /\ UNCHANGED <<deps, files, made, run, mainVars, printed, taskVars, fault,
                   runHist, scanned, invoked, placed>>

----------------------------------------------------------------------------
(* collect_video_files, lines 208-222 *)

Perms(S) ==
    {s \in [1..Cardinality(S) -> S] : \A m, n \in 1..Cardinality(S) : s[m] = s[n] => m = n}

\* os.walk(video_dir), top-down: the files of the root, then those of its
\* subdirectory; within one directory the order is the filesystem's
Walks(video_dir) ==
    LET top == {f \in files : f.root = video_dir /\ f.dir = "."}
        sub == {f \in files : f.root = video_dir /\ f.dir # "."}
    IN  {a \o b : a \in Perms(top), b \in Perms(sub)}

\* lines 214-219 without the .lower()
WantedCaseSensitive(f) ==
    /\ Suffix(f.name) \in SUPPORTED_EXTENSIONS
    /\ OutputSrtPath(SUBTITLE_DIR, f) \notin files

\* lines 214-215 only
WantedNoSrtCheck(f) == Lower(Suffix(f.name)) \in SUPPORTED_EXTENSIONS

\* lines 214-219: the test that appends file_path
Wanted(f) ==
    /\ Lower(Suffix(f.name)) \in SUPPORTED_EXTENSIONS
    /\ OutputSrtPath(SUBTITLE_DIR, f) \notin files

collect_video_files(walk) == SelectSeq(walk, Wanted)

\* main, lines 238-250
Scan ==
    /\ pc = "scan"
    /\ \E walk \in Walks(VIDEO_DIR) :
          /\ video_files' = collect_video_files(walk)
          /\ IF video_files' = <<>>
                THEN /\ pc' = "done"
                     /\ exitStatus' = 0
                     /\ printed' = printed \cup {"nothing"}
                ELSE /\ pc' = "loop"
                     /\ UNCHANGED <<exitStatus, printed>>
    /\ scanned' = TRUE
    /\ i' = 1
    /\ success_count' = 0
    /\ failed_count' = 0
    /\ UNCHANGED <<deps, files, made, outDirs, run, outcomes, taskVars, fault,
                   crashAt, runHist, invoked, placed>>

----------------------------------------------------------------------------
(* main's loop body, lines 254-274: what happens when process_video returns *)

TaskReturns(b) ==
    /\ outcomes' = Append(outcomes, b)
    /\ success_count' = IF b THEN success_count + 1 ELSE success_count
    /\ failed_count' = IF b THEN failed_count ELSE failed_count + 1
    /\ i' = i + 1
    /\ pc' = "loop"
    /\ UNCHANGED <<video_files, exitStatus, crashAt>>

----------------------------------------------------------------------------
(* process_video, lines 149-171: up to the try block *)

SubtitleNeverExists(output_srt_path) == FALSE

\* lines 162-164: output_srt_path.exists()
SubtitleExists(output_srt_path) == output_srt_path \in files

ProcessStart ==
    /\ pc = "loop"
    /\ i <= Len(video_files)
    /\ LET vp == video_files[i]
           file_ext == Lower(Suffix(vp.name))
           output_srt_path == OutputSrtPath(SUBTITLE_DIR, vp)
       IN  /\ video_path' = vp
           /\ success' = FALSE
           /\ ffmpeg_rc' = -1
           /\ engine_rc' = -1
           /\ engine_wrote' = FALSE
           /\ IF file_ext \notin SUPPORTED_EXTENSIONS \/ SubtitleExists(output_srt_path)
                 THEN \* lines 155-156 and 163-164: return False
                      /\ TaskReturns(FALSE)
                      /\ fault' = "none"
                      /\ UNCHANGED <<outDirs, temp_wav, keep_wav>>
                 ELSE \* line 167: mkdir(parents=True, exist_ok=True), outside the try
                      \/ /\ outDirs' = outDirs \cup {".", output_srt_path.dir}
                         /\ temp_wav' = TempWavPath(vp)
                         /\ keep_wav' = (file_ext = <<".", "wav">>)
                         /\ fault' = "none"
                         /\ pc' = "extract"
                         /\ UNCHANGED <<mainVars, exitStatus, crashAt>>
                      \/ /\ output_srt_path.dir \notin outDirs
                         /\ fault' = "mkdir"
                         /\ Crash("mkdir")
                         /\ UNCHANGED <<outDirs, temp_wav, keep_wav, mainVars>>
    /\ UNCHANGED <<deps, files, made, run, printed, runHist, scanned, invoked, placed>>

----------------------------------------------------------------------------
(* extract_audio_with_filters, lines 74-93, and its call, lines 175-184 *)

\* what `ffmpeg -y -i input ... output` can do: exit 0 with the output
\* written, or exit non-zero with or without an output file left behind;
\* with no input file it cannot but fail before opening its output
FfmpegOutcomes(input_file) ==
    IF input_file \in files
       THEN { [rc |-> 0, wrote |-> TRUE], [rc |-> 1, wrote |-> FALSE],
              [rc |-> 1, wrote |-> TRUE] }
       ELSE { [rc |-> 1, wrote |-> FALSE] }

extract_audio_with_filters_unchecked(rc) == TRUE

\* check=True: CalledProcessError is caught and turned into False
extract_audio_with_filters(rc) == rc = 0

NeedsExtractAlways == TRUE

\* line 175: not keep_wav or not video_path_obj.exists()
NeedsExtract == ~keep_wav \/ video_path \notin files

Extract ==
    /\ pc = "extract"
    /\ IF NeedsExtract
          THEN \E o \in FfmpegOutcomes(video_path) :
                 /\ files' = IF o.wrote THEN files \cup {temp_wav} ELSE files
                 /\ made' = IF o.wrote THEN made \cup {temp_wav} ELSE made
                 /\ ffmpeg_rc' = o.rc
                 /\ invoked' = invoked \cup
                       {<<"ffmpeg", video_path, OutputSrtPath(SUBTITLE_DIR, video_path) \in files>>}
                 /\ IF extract_audio_with_filters(o.rc)
                       THEN /\ pc' = "transcribe"
                            /\ UNCHANGED <<mainVars, exitStatus, crashAt, fault>>
                       ELSE \* line 182: return False, no cleanup on this path
                            /\ TaskReturns(FALSE)
                            /\ fault' = "ffmpeg"
                 /\ UNCHANGED temp_wav
          ELSE /\ temp_wav' = video_path
               /\ pc' = "transcribe"
               /\ UNCHANGED <<files, made, invoked, mainVars, exitStatus, crashAt, fault,
                              ffmpeg_rc>>
    /\ UNCHANGED <<deps, outDirs, run, printed, video_path, keep_wav, success,
                   engine_rc, engine_wrote, runHist, scanned, placed>>

----------------------------------------------------------------------------
(* generate_subtitle, lines 107-134 *)

\* the engine exits zero or not, and has or has not written <wav>.srt
EngineOutcomes == [rc : {0, 1}, wrote : BOOLEAN]

AfterEngineUnchecked(rc) == "place"

\* check=True, lines 116-122 and 132-134: a non-zero exit skips the move
AfterEngine(rc) == IF rc = 0 THEN "place" ELSE "cleanup"

\* lines 108-122: run the engine on wav_file
Transcribe ==
    /\ pc = "transcribe"
    /\ \E o \in EngineOutcomes :
          LET temp_srt == TempSrtPath(temp_wav)
          IN  /\ files' = IF o.wrote THEN files \cup {temp_srt} ELSE files
              /\ made' = IF o.wrote THEN made \cup {temp_srt} ELSE made
              /\ engine_rc' = o.rc
              /\ engine_wrote' = o.wrote
              /\ invoked' = invoked \cup
                    {<<"main", video_path, OutputSrtPath(SUBTITLE_DIR, video_path) \in files>>}
              /\ pc' = AfterEngine(o.rc)
              /\ fault' = IF o.rc = 0 THEN fault ELSE "engine"
    /\ success' = FALSE
    /\ UNCHANGED <<deps, outDirs, run, mainVars, exitStatus, printed, video_path,
                   temp_wav, keep_wav, ffmpeg_rc, crashAt, runHist, scanned, placed>>

\* lines 124-130: the move of the artifact to output_srt
Place ==
    /\ pc = "place"
    /\ LET temp_srt == TempSrtPath(temp_wav)
           output_srt == OutputSrtPath(SUBTITLE_DIR, video_path)
       IN  IF temp_srt \in files
              THEN \/ \* shutil.move succeeds
                      /\ files' = (files \ {temp_srt}) \cup {output_srt}
                      /\ made' = IF temp_srt \in made
                                    THEN (made \ {temp_srt}) \cup {output_srt}
                                    ELSE made \ {temp_srt, output_srt}
                      /\ placed' = placed \cup {output_srt}
                      /\ success' = TRUE
                      /\ pc' = "cleanup"
                      /\ UNCHANGED fault
                   \/ \* shutil.move raises: caught at line 200
                      /\ fault' = "move"
                      /\ pc' = "handler"
                      /\ UNCHANGED <<files, made, placed, success>>
              ELSE /\ success' = FALSE
                   /\ fault' = "artifact"
                   /\ pc' = "cleanup"
                   /\ UNCHANGED <<files, made, placed>>
    /\ UNCHANGED <<deps, outDirs, run, mainVars, exitStatus, printed, video_path,
                   temp_wav, keep_wav, ffmpeg_rc, engine_rc, engine_wrote, crashAt,
                   runHist, scanned, invoked>>

----------------------------------------------------------------------------
(* process_video, lines 194-205: cleanup and the exception handler *)

\* the guard of both unlink calls, lines 195 and 203
MustUnlink == ~keep_wav /\ temp_wav \in files

\* lines 195-198
Cleanup ==
    /\ pc = "cleanup"
    /\ IF MustUnlink
          THEN \/ /\ files' = files \ {temp_wav}
                  /\ made' = made \ {temp_wav}
                  /\ TaskReturns(success)
                  /\ UNCHANGED fault
               \/ \* unlink raises inside the try: caught at line 200
                  /\ fault' = "unlink"
                  /\ pc' = "handler"
                  /\ UNCHANGED <<files, made, mainVars, exitStatus, crashAt>>
          ELSE /\ TaskReturns(success)
               /\ UNCHANGED <<files, made, fault>>
    /\ UNCHANGED <<deps, outDirs, run, printed, taskVars, runHist, scanned,
                   invoked, placed>>

\* lines 200-205
Handler ==
    /\ pc = "handler"
    /\ IF MustUnlink
          THEN \/ /\ files' = files \ {temp_wav}
                  /\ made' = made \ {temp_wav}
                  /\ TaskReturns(FALSE)
                  /\ UNCHANGED fault
               \/ \* unlink raises in the handler: nothing catches it
                  /\ Crash("unlink")
                  /\ UNCHANGED <<files, made, mainVars, fault>>
          ELSE /\ TaskReturns(FALSE)
               /\ UNCHANGED <<files, made, fault>>
    /\ UNCHANGED <<deps, outDirs, run, printed, taskVars, runHist, scanned,
                   invoked, placed>>

----------------------------------------------------------------------------
(* main, lines 276-282, and the next run of the program *)

Summary ==
    /\ pc = "loop"
    /\ i > Len(video_files)
    /\ printed' = printed \cup {"summary"}
    /\ exitStatus' = 0
    /\ pc' = "done"
    /\ UNCHANGED <<deps, files, made, outDirs, run, mainVars, taskVars, fault,
                   crashAt, runHist, scanned, invoked, placed>>

Ended == {"done", "exited", "crashed"}

\* the user starts the program again on the tree the last run left
NextRun ==
    /\ pc \in Ended
    /\ run < MaxRuns
    /\ run' = run + 1
    /\ pc' = "main"
    /\ prevClean' = (pc = "done" /\ video_files # <<>> /\ failed_count = 0)
    /\ crashedBefore' = (crashedBefore \/ pc = "crashed")
    /\ startFiles' = files
    /\ startDirs' = outDirs
    /\ video_files' = <<>>
    /\ i' = 1
    /\ success_count' = 0
    /\ failed_count' = 0
    /\ outcomes' = <<>>
    /\ exitStatus' = -1
    /\ printed' = {}
    /\ video_path' = NoPath
    /\ temp_wav' = NoPath
    /\ keep_wav' = FALSE
    /\ success' = FALSE
    /\ ffmpeg_rc' = -1
    /\ engine_rc' = -1
    /\ engine_wrote' = FALSE
    /\ fault' = "none"
    /\ crashAt' = "none"
    /\ scanned' = FALSE
    /\ invoked' = {}
    /\ placed' = {}
    /\ UNCHANGED <<deps, files, made, outDirs>>

Next ==
    \/ CheckDependencies
    \/ MakeDirs
    \/ Scan
    \/ ProcessStart
    \/ Extract
    \/ Transcribe
    \/ Place
    \/ Cleanup
    \/ Handler
    \/ Summary
    \/ NextRun

Spec == Init /\ [][Next]_vars

TypeOK ==
    /\ pc \in {"main", "makedirs", "scan", "loop", "extract", "transcribe",
               "place", "cleanup", "handler"} \cup Ended
    /\ run \in 1..MaxRuns
    /\ i \in 1..(Len(video_files) + 1)
    /\ success_count + failed_count = Len(outcomes)

----------------------------------------------------------------------------
(* Properties *)

\* process_video has just returned to main's loop for video_path
JustReturned == pc = "loop" /\ i > 1

\* C1: after process_video returns for a task, whatever its outcome, the
\* task's temporary waveform file <stem>_temp.wav is not on disk.
C1_TempWavGone ==
    JustReturned => TempWavPath(video_path) \notin files

\* C2: every file that was under the input root when the batch started is
\* still there: no task deletes an original input file.
C2_InputsKept ==
    \A f \in startFiles : f.root = VIDEO_DIR => f \in files

\* C3: when the engine exits zero without writing its artifact, the task's
\* outcome is failure and its destination subtitle is not created.
C3_NoArtifactIsFailure ==
    (JustReturned /\ engine_rc = 0 /\ ~engine_wrote)
        => /\ outcomes[i - 1] = FALSE
           /\ OutputSrtPath(SUBTITLE_DIR, video_path) \notin files

\* C4: every per-file failure (transcoder, engine, missing artifact, move,
\* destination directory) becomes a failure outcome of its task, and every
\* discovered task is attempted before the batch ends.
C4_FailuresIsolated ==
    /\ fault \in {"ffmpeg", "engine", "artifact", "move", "mkdir"} => pc # "crashed"
    /\ pc \in {"done", "crashed"} => i > Len(video_files)

\* C5: a failing unlink of the temporary waveform file never leaves
\* process_video as an exception.
C5_CleanupNeverEscalates ==
    crashAt # "unlink"

\* C6: a run whose dependency verification failed ends with a non-zero
\* exit status, and a run that passed it and discovered tasks ends with exit
\* status zero and its summary, whatever the outcomes of the tasks.
C6_ExitStatus ==
    pc \in Ended =>
        /\ Errors # {} => exitStatus # 0
        /\ (Errors = {} /\ video_files # <<>>)
              => (exitStatus = 0 /\ "summary" \in printed)

\* C7: with a dependency missing, the run stops at the verification: the
\* failure is reported, the exit status is 1, the input root is not scanned,
\* no task is attempted, no tool is invoked and no directory or file changes.
C7_DependencyGate ==
    Errors # {} =>
        /\ pc \in {"main", "exited"}
        /\ ~scanned
        /\ video_files = <<>>
        /\ outcomes = <<>>
        /\ invoked = {}
        /\ outDirs = startDirs
        /\ files = startFiles
        /\ pc = "exited" => ("errors" \in printed /\ exitStatus = 1)

C7_Witness ==
    /\ pc = "exited"
    /\ Errors = {"model"}
    /\ \E f \in files : Wanted(f)

\* C8: a file appears under the output root only by the move of
\* generate_subtitle, taken after the engine exited zero with the artifact
\* <wav>.srt on disk; the move goes to the task's own destination, which is
\* absent until then, and nothing else changes in that step.
C8_DestinationOnlyByMove ==
    /\ [](pc = "place" => OutputSrtPath(SUBTITLE_DIR, video_path) \notin files)
    /\ [][\A d \in files' \ files :
            d.root = SUBTITLE_DIR =>
               /\ pc = "place"
               /\ engine_rc = 0
               /\ TempSrtPath(temp_wav) \in files
               /\ d = OutputSrtPath(SUBTITLE_DIR, video_path)
               /\ files' = (files \ {TempSrtPath(temp_wav)}) \cup {d}]_vars

C8_Witness ==
    /\ pc = "cleanup"
    /\ success
    /\ engine_rc = 0
    /\ OutputSrtPath(SUBTITLE_DIR, video_path) \in files \ startFiles

\* the claim's reading of a file name: <stem> "." <extension>
ClaimExt(name) ==
    IF Len(name) >= 3 /\ name[Len(name) - 1] = "." THEN name[Len(name)] ELSE "none"

ClaimStem(name) == SubSeq(name, 1, Len(name) - 2)

ClaimSupported == {"mp4", "mov", "m4a", "mp3", "mkv", "wav"}

ClaimQualifies(f) ==
    /\ f.root = "video"
    /\ \E e \in ClaimSupported : LowerTok(ClaimExt(f.name)) = e
    /\ P("subtitle", f.dir, ClaimStem(f.name) \o <<".", "srt">>) \notin files

AfterScan ==
    /\ scanned
    /\ \/ pc = "loop" /\ i = 1
       \/ pc = "done" /\ video_files = <<>>

\* C9: collect_video_files returns, once each, exactly the files under the
\* input root whose extension is supported (case-insensitively) and whose
\* mirrored destination <output root>/<relative parent>/<stem>.srt is absent.
C9_DiscoveryExact ==
    AfterScan =>
        /\ {video_files[k] : k \in 1..Len(video_files)} = {f \in files : ClaimQualifies(f)}
        /\ \A m, n \in 1..Len(video_files) : video_files[m] = video_files[n] => m = n

C9_Witness ==
    /\ AfterScan
    /\ P("video", ".", <<"a", ".", "MOV">>) \in files
    /\ P("video", ".", <<"a", ".", "txt">>) \in files
    /\ video_files = << P("video", ".", <<"a", ".", "MOV">>) >>

\* C10: in a second run no external tool is invoked for a file whose
\* destination subtitle exists (at the start of the run or at the
\* invocation), and after a run whose tasks all succeeded the next
\* discovery returns no task.
C10_Idempotence ==
    run >= 2 =>
        /\ \A t \in invoked :
              /\ ~t[3]
              /\ OutputSrtPath(SUBTITLE_DIR, t[2]) \notin startFiles
        /\ (prevClean /\ scanned) => video_files = <<>>

C10_Witness ==
    /\ run = 2
    /\ prevClean
    /\ scanned
    /\ pc = "done"

\* C11: when a run that discovered tasks is over, every discovered task has
\* been consumed once and has one outcome: as many outcomes as tasks, and
\* success_count + failed_count equal to the number of tasks.
C11_EveryTaskOneOutcome ==
    (pc \in {"done", "crashed"} /\ scanned) =>
        /\ Len(outcomes) = Len(video_files)
        /\ i = Len(video_files) + 1
        /\ success_count + failed_count = Len(video_files)

\* the engine is about to run, or has run, for the current task
AtOrPastEngine == pc \in {"transcribe", "place", "cleanup", "handler"}

\* C12: per task the steps come in the order extract, transcribe, place:
\* the engine runs only after ffmpeg exited zero for the task or the input
\* waveform is used directly, the move is attempted only after the engine
\* exited zero, and process_video returns True only from the cleanup that
\* follows a move to the task's destination.
C12_StepOrder ==
    /\ [](AtOrPastEngine =>
            \/ ffmpeg_rc = 0 /\ temp_wav = TempWavPath(video_path)
            \/ ffmpeg_rc = -1 /\ keep_wav /\ temp_wav = video_path)
    /\ [](engine_rc # -1 => AtOrPastEngine \/ pc \in {"loop", "done", "crashed"})
    /\ [](pc = "place" => engine_rc = 0)
    /\ [][pc = "place" /\ files' # files => engine_rc = 0 /\ pc' = "cleanup"]_vars
    /\ [][(Len(outcomes') > Len(outcomes) /\ outcomes'[Len(outcomes')])
             => /\ pc = "cleanup"
                /\ engine_rc = 0
                /\ OutputSrtPath(SUBTITLE_DIR, video_path) \in placed]_vars

C12_Witness ==
    /\ JustReturned
    /\ outcomes[i - 1]
    /\ ffmpeg_rc = 0
    /\ engine_rc = 0

\* C13: a task whose destination subtitle exists when it starts returns
\* False at once: no tool is invoked and no file or directory is created,
\* changed or deleted.
C13_RecheckSkips ==
    [][(pc = "loop" /\ i <= Len(video_files)
          /\ P("subtitle", video_files[i].dir, ClaimStem(video_files[i].name) \o <<".", "srt">>) \in files)
        => /\ pc' = "loop"
           /\ i' = i + 1
           /\ outcomes' = Append(outcomes, FALSE)
           /\ files' = files
           /\ made' = made
           /\ outDirs' = outDirs
           /\ invoked' = invoked
           /\ placed' = placed]_vars

\* the second task of a pair with one destination, after the first placed it
C13_Witness ==
    /\ JustReturned
    /\ i = 3
    /\ outcomes = <<TRUE, FALSE>>
    /\ OutputSrtPath(SUBTITLE_DIR, video_path) \in placed
    /\ OutputSrtPath(SUBTITLE_DIR, video_files[1]) = OutputSrtPath(SUBTITLE_DIR, video_path)
    /\ ffmpeg_rc = -1
    /\ engine_rc = -1

\* C14: after process_video returns for a task whose engine ran, the
\* engine's intermediate artifact <waveform path>.srt is not on disk.
C14_IntermediateGone ==
    (JustReturned /\ engine_rc # -1) => TempSrtPath(temp_wav) \notin files

\* C15: two distinct tasks of one discovery have different temporary
\* waveform paths.
C15_OwnTempPath ==
    AfterScan =>
        \A m, n \in 1..Len(video_files) :
            m # n => TempWavPath(video_files[m]) # TempWavPath(video_files[n])

\* C16: the temporary waveform file of a task is <stem>_temp.wav in the
\* parent directory of its destination, under the output root, and no file
\* appears under the input root during a run.
C16_TempUnderOutputRoot ==
    /\ (AtOrPastEngine /\ ffmpeg_rc = 0) =>
           temp_wav = P("subtitle", video_path.dir,
                        ClaimStem(video_path.name) \o <<"_temp", ".", "wav">>)
    /\ \A f \in files : f.root = "video" => f \in startFiles

\* the claim's reading of "a .wav extension (case-insensitive)"
ClaimIsWav(p) == LowerTok(ClaimExt(p.name)) = "wav"

\* the engine is about to run or has run for the task of video_path
EngineScope == AtOrPastEngine \/ (JustReturned /\ engine_rc # -1)

\* C17: for a .wav input that exists, ffmpeg is not invoked and the engine
\* gets the source path itself; for any other input ffmpeg has been invoked,
\* with exit status zero, before the engine, on another path than the
\* source; and ffmpeg runs at most once per task, in the extract step.
C17_WavBypass ==
    /\ []((EngineScope /\ ClaimIsWav(video_path) /\ video_path \in files)
            => /\ ffmpeg_rc = -1
               /\ temp_wav = video_path
               /\ \A t \in invoked : ~(t[1] = "ffmpeg" /\ t[2] = video_path))
    /\ []((EngineScope /\ ~ClaimIsWav(video_path))
            => /\ ffmpeg_rc = 0
               /\ temp_wav # video_path
               /\ \E t \in invoked : t[1] = "ffmpeg" /\ t[2] = video_path)
    /\ [][ffmpeg_rc' # ffmpeg_rc
            => \/ pc = "extract" /\ ffmpeg_rc = -1
               \/ ffmpeg_rc' = -1]_vars

C17_Witness ==
    /\ pc = "place"
    /\ ClaimExt(video_path.name) = "WAV"
    /\ ClaimIsWav(video_path)
    /\ video_path \in files
    /\ temp_wav = video_path
    /\ engine_rc = 0
    /\ ffmpeg_rc = -1

\* C18: process_video returns True for a task exactly when that task's run
\* of the engine was followed by the move to its destination: a task whose
\* subtitle was placed is not counted as failed, and a task counted as a
\* success has its destination on disk.
C18_SuccessIffPlaced ==
    JustReturned =>
        (outcomes[i - 1] <=>
            (engine_rc # -1 /\ OutputSrtPath(SUBTITLE_DIR, video_path) \in files))

\* C19: when no earlier run was cut short, nothing the pipeline wrote is
\* under the input root when collect_video_files scans it, so every task is
\* an original input file.
C19_NoArtifactDiscovered ==
    (AfterScan /\ ~crashedBefore) =>
        /\ \A f \in files : f.root = "video" => f \notin made
        /\ \A k \in 1..Len(video_files) : video_files[k] \notin made

====
